---- MODULE Spec2Model ----
(***************************************************************************)
(* Model of the lithophane geometry pipeline of src/src/lib/processing.ts  *)
(* (processImage, the revision with borders, shapes and wall stitching).   *)
(*                                                                         *)
(* Numbers.  Lengths are integers in hundredths of a millimetre.  Depths   *)
(* and thicknesses are exact fractions [n, d]: d > 0 is a finite value,    *)
(* d = 0 stands for the IEEE results of a division by zero (n = 1 is       *)
(* +Infinity, n = -1 is -Infinity, n = 0 is NaN).  Binary rounding of the  *)
(* doubles and of the Float32Array is not modelled.  Math.cos / Math.sin   *)
(* are modelled by Bhaskara's rational approximation, Math.sqrt of the     *)
(* oval metric by an integer square root at a resolution of 1/100.         *)
(***************************************************************************)
EXTENDS Integers, Sequences, FiniteSets, TLC

VARIABLES
    options,        \* the ProcessingOptions passed to processImage
    img,            \* the decoded image: [width, height]
    data,           \* imageData.data as the pixel loop reads it, one [r, g, b, a] per cell
    preview,        \* imageData.data as the pixel loop writes it back (the preview)
    pc,             \* position inside the onload handler
    depthData,      \* the Float32Array height field, one entry per cell
    vertices,       \* the vertex buffer, one entry per pushed vertex
    indices,        \* the index buffer, one entry per pushed triangle
    boundaryEdges,  \* the keys of the boundaryEdges Map, in insertion order
    order,          \* the order in which the face loop visits the 2x2 blocks
    blk,            \* number of blocks the face loop has visited
    pixels,         \* the image as drawImage puts it on a fresh canvas
    results,        \* what processImage resolved with, call after call
    file,           \* App: a file is selected
    sourceUrl,      \* App: the URL of the image to process, or NoUrl
    isCropping,     \* App: the cropper is open
    appOptions,     \* App: the options state
    isProcessing,   \* App: the busy flag
    result,         \* App: the stored ProcessResult, or NoResult
    timer,          \* App: the pending debounce timer, or NoTimer
    calls,          \* the processImage calls started in this page load
    storage         \* localStorage['lithophane_options'], or NoItem

\* the variables of one processImage call
callVars == <<options, img, data, preview, pc, depthData, vertices, indices,
              boundaryEdges, order, blk>>

\* the image on the canvas and the results of the calls made so far
runVars == <<pixels, results>>

\* the state of the App component and of the browser around it
appVars == <<file, sourceUrl, isCropping, appOptions, isProcessing, result,
             timer, calls, storage>>

vars == <<callVars, runVars, appVars>>

(***************************************************************************)
(* Bounds of the model                                                     *)
(***************************************************************************)
MaxW == 4
MaxH == 3
FieldW == 3
FieldH == 3
MaxHoles == 2
MaxPermBlocks == 4
MaxLayers == 3
ScenarioSize == 4
MaxRuns == 2
MaxCalls == 2
FrameSize == 11

(***************************************************************************)
(* Arithmetic helpers                                                      *)
(***************************************************************************)
Abs(x) == IF x < 0 THEN -x ELSE x

Sign(x) == IF x < 0 THEN -1 ELSE IF x > 0 THEN 1 ELSE 0

Min2(a, b) == IF a < b THEN a ELSE b

Max2(a, b) == IF a < b THEN b ELSE a

RECURSIVE GCD(_, _)
GCD(a, b) == IF b = 0 THEN a ELSE GCD(b, a % b)

\* the fraction n/d in lowest terms with d >= 0; d = 0 encodes Infinity / NaN
Q(n, d) ==
    IF d = 0 THEN [n |-> Sign(n), d |-> 0]
    ELSE LET g == GCD(Abs(n), Abs(d))
             s == IF d < 0 THEN -1 ELSE 1
         IN [n |-> s * (n \div g), d |-> s * (d \div g)]

QInt(k) == [n |-> k, d |-> 1]

QNaN == [n |-> 0, d |-> 0]

QIsFinite(a) == a.d > 0

QAdd(a, b) ==
    IF a.d = 0 /\ b.d = 0 THEN (IF a.n = b.n THEN a ELSE QNaN)
    ELSE IF a.d = 0 THEN a
    ELSE IF b.d = 0 THEN b
    ELSE LET g == GCD(a.d, b.d)
         IN Q(a.n * (b.d \div g) + b.n * (a.d \div g), (a.d \div g) * b.d)

QNeg(a) == [n |-> -a.n, d |-> a.d]

QSub(a, b) == QAdd(a, QNeg(b))

QMul(a, b) ==
    IF a.d = 0 \/ b.d = 0
    THEN (IF (a.d = 0 /\ a.n = 0) \/ (b.d = 0 /\ b.n = 0) THEN QNaN
          ELSE [n |-> Sign(a.n) * Sign(b.n), d |-> 0])
    ELSE LET x == Q(a.n, b.d)
             y == Q(b.n, a.d)
         IN Q(x.n * y.n, x.d * y.d)

\* a / b with the IEEE results for b = 0
QDiv(a, b) ==
    IF a.d = 0 /\ b.d = 0 THEN QNaN
    ELSE IF a.d = 0 THEN (IF b.n = 0 THEN a ELSE [n |-> a.n * Sign(b.n), d |-> 0])
    ELSE IF b.d = 0 THEN QInt(0)
    ELSE IF b.n = 0 THEN [n |-> Sign(a.n), d |-> 0]
    ELSE QMul(a, Q(b.d, b.n))

\* a < b, a >= b, ... as JavaScript compares numbers: false when NaN is involved
QLt(a, b) ==
    IF (a.d = 0 /\ a.n = 0) \/ (b.d = 0 /\ b.n = 0) THEN FALSE
    ELSE IF a.d = 0 /\ b.d = 0 THEN a.n < b.n
    ELSE IF a.d = 0 THEN a.n < 0
    ELSE IF b.d = 0 THEN b.n > 0
    ELSE a.n * b.d < b.n * a.d

QGe(a, b) ==
    IF (a.d = 0 /\ a.n = 0) \/ (b.d = 0 /\ b.n = 0) THEN FALSE
    ELSE ~QLt(a, b)

\* Math.round(n/d): the nearest integer, halves rounded up
Round(n, d) ==
    IF d > 0 THEN (2 * n + d) \div (2 * d)
    ELSE (-(2 * n) - d) \div (-(2 * d))

\* Math.floor(n/d)
Floor(n, d) == IF d > 0 THEN n \div d ELSE (-n) \div (-d)

\* conversion of n/d to an element of a Uint8ClampedArray: clamp to 0..255,
\* round to nearest, halves to even
ToUint8Clamped(n, d) ==
    LET f == Floor(n, d)
        r2 == 2 * (n - f * d)
        v == IF r2 < d THEN f
             ELSE IF r2 > d THEN f + 1
             ELSE IF f % 2 = 0 THEN f ELSE f + 1
    IN IF v < 0 THEN 0 ELSE IF v > 255 THEN 255 ELSE v

\* floor of the square root of a natural number
RECURSIVE ISqrtFrom(_, _)
ISqrtFrom(x, r) == IF (r + 1) * (r + 1) > x THEN r ELSE ISqrtFrom(x, r + 1)

ISqrt(x) == ISqrtFrom(x, 0)

\* Math.cos(t * PI / 2) for 0 <= t <= 1 (Bhaskara; exact at t = 0 and t = 1)
CosHalfPi(t) == Q(4 * (t.d * t.d - t.n * t.n), 4 * t.d * t.d + t.n * t.n)

\* Math.sin(s * PI) for 0 <= s <= 1 (Bhaskara; exact at s = 0, 1/6, 1/2, 5/6, 1)
SinPi(s) ==
    LET p == s.n * (s.d - s.n)
    IN Q(16 * p, 5 * s.d * s.d - 4 * p)


(***************************************************************************)
(* processImage, step 1: dimensions (processing.ts 319-336)                *)
(***************************************************************************)
\* options.pixelSize || 0.15
DefaultPixelSize == 15

PixelSizeMm(opt) == IF opt.pixelSize = 0 THEN DefaultPixelSize ELSE opt.pixelSize

TargetWidth(opt) == Round(opt.widthMm, PixelSizeMm(opt))

\* Math.round(img.height * (targetWidth / img.width))
TargetHeight(opt, im) == Round(im.height * TargetWidth(opt), im.width)

W == TargetWidth(options)

H == TargetHeight(options, img)

Cells(w, h) == 0 .. (w * h - 1)

CellX(i, w) == i % w

CellY(i, w) == i \div w

(***************************************************************************)
(* applyImageAdjustments and applyBlur (processing.ts 848-915)             *)
(* contrast and brightness are in tenths; gamma is 1.0 (Math.pow is not    *)
(* modelled, the gamma branch is skipped as for gamma === 1.0).            *)
(***************************************************************************)
\* ((c/255 * brightness) - 0.5) * contrast + 0.5, times 255, stored clamped
AdjustChannel(c, opt) ==
    ToUint8Clamped(c * opt.brightness * opt.contrast - 1275 * opt.contrast + 12750, 100)

applyImageAdjustments(d, opt) ==
    [i \in DOMAIN d |->
        [r |-> AdjustChannel(d[i].r, opt), g |-> AdjustChannel(d[i].g, opt),
         b |-> AdjustChannel(d[i].b, opt), a |-> d[i].a]]

RECURSIVE SumOver(_, _, _)
SumOver(S, d, ch) ==
    IF S = {} THEN 0
    ELSE LET i == CHOOSE j \in S : TRUE
         IN d[i][ch] + SumOver(S \ {i}, d, ch)

BlurWindow(i, w, h, radius) ==
    {j \in Cells(w, h) : /\ Abs(CellX(j, w) - CellX(i, w)) <= radius
                         /\ Abs(CellY(j, w) - CellY(i, w)) <= radius}

applyBlur(src, w, h, radius) ==
    [i \in DOMAIN src |->
        LET win == BlurWindow(i, w, h, radius)
            count == Cardinality(win)
        IN [r |-> ToUint8Clamped(SumOver(win, src, "r"), count),
            g |-> ToUint8Clamped(SumOver(win, src, "g"), count),
            b |-> ToUint8Clamped(SumOver(win, src, "b"), count),
            a |-> src[i].a]]

\* the radius without the lower limit of 1
BlurRadiusNoMax(opt) == Round(3 * opt.smoothing, 10)

\* Math.max(1, Math.round(options.smoothing * 3)), smoothing in tenths
BlurRadius(opt) == Max2(1, Round(3 * opt.smoothing, 10))

Prepared(d, opt, w, h) ==
    LET adj == applyImageAdjustments(d, opt)
    IN IF opt.smoothing > 0 THEN applyBlur(adj, w, h, BlurRadius(opt)) ELSE adj

(***************************************************************************)
(* processImage, step 3: the per-pixel loop (processing.ts 352-583)        *)
(***************************************************************************)
Hole == QInt(-1)

\* 1000 * (0.299 r + 0.587 g + 0.114 b)
Gray1000(p) == 299 * p.r + 587 * p.g + 114 * p.b

IsBackground(opt, p) ==
    opt.backgroundRemoval /\ Gray1000(p) > 1000 * opt.backgroundThreshold

\* the bucket found with step = 1 / levels
LayerIdxByLevels(opt, p) ==
    IF opt.layerCount > 1 THEN Round(Gray1000(p) * opt.layerCount, 255000) ELSE 0

\* the bucket found with Math.floor instead of Math.round
LayerIdxFloor(opt, p) ==
    IF opt.layerCount > 1 THEN Floor(Gray1000(p) * (opt.layerCount - 1), 255000) ELSE 0

\* Math.round(val / step), val = gray / 255, step = 1 / (levels - 1)
LayerIdx(opt, p) ==
    IF opt.layerCount > 1 THEN Round(Gray1000(p) * (opt.layerCount - 1), 255000) ELSE 0

QuantVal(opt, p) ==
    IF opt.layerCount > 1 THEN Q(LayerIdx(opt, p), opt.layerCount - 1)
    ELSE Q(Gray1000(p), 255000)

\* the mask without its test of the array's length
IsVisibleNoLengthTest(opt, p) ==
    IF IsBackground(opt, p) THEN FALSE
    ELSE IF /\ opt.layerVisibility.present
            /\ LayerIdx(opt, p) >= 0
            /\ LayerIdx(opt, p) < Len(opt.layerVisibility.flags)
         THEN opt.layerVisibility.flags[LayerIdx(opt, p) + 1]
         ELSE TRUE

\* the layer visibility mask: indexed by the luminance bucket layerIdx
IsVisible(opt, p) ==
    IF IsBackground(opt, p) THEN FALSE
    ELSE IF /\ opt.layerVisibility.present
            /\ Len(opt.layerVisibility.flags) = opt.layerCount
            /\ LayerIdx(opt, p) >= 0
            /\ LayerIdx(opt, p) < opt.layerCount
         THEN opt.layerVisibility.flags[LayerIdx(opt, p) + 1]
         ELSE TRUE

InvertedDepth(opt, p) ==
    IF opt.invert THEN QSub(QInt(1), QuantVal(opt, p)) ELSE QuantVal(opt, p)

\* options.mounting left out of the options object
NoMounting == <<>>

\* the test with <= : a cell at exactly the radius is cut too
InMountingHoleInclusive(opt, w, px, py) ==
    LET ps == PixelSizeMm(opt)
    IN /\ opt.mounting # NoMounting
       /\ opt.mounting.enabled
       /\ opt.mounting.diameterMm > 0
       /\ ((2 * px - w) * ps) * ((2 * px - w) * ps)
            + (2 * (py * ps - opt.mounting.offsetMm)) * (2 * (py * ps - opt.mounting.offsetMm))
              <= opt.mounting.diameterMm * opt.mounting.diameterMm

\* options.mounting && options.mounting.enabled && distToHole < holeRadiusPx,
\* both sides of the comparison multiplied by 2 * pixelSizeMm and squared
InMountingHole(opt, w, px, py) ==
    LET ps == PixelSizeMm(opt)
        dx2 == (2 * px - w) * ps
        dy2 == 2 * (py * ps - opt.mounting.offsetMm)
    IN /\ opt.mounting # NoMounting
       /\ opt.mounting.enabled
       /\ opt.mounting.diameterMm > 0
       /\ dx2 * dx2 + dy2 * dy2 < opt.mounting.diameterMm * opt.mounting.diameterMm

AfterMounting(opt, w, px, py, p) ==
    IF InMountingHole(opt, w, px, py) THEN Hole ELSE InvertedDepth(opt, p)

BorderPixels(opt) == Round(opt.border.widthMm, PixelSizeMm(opt))

\* oval mode: u = px / (w - 1) * 2 - 1, v likewise; d*d = OvalNum / OvalDen
OvalNum(w, h, px, py) ==
    LET a == 2 * px - (w - 1)
        b == 2 * py - (h - 1)
    IN a * a * (h - 1) * (h - 1) + b * b * (w - 1) * (w - 1)

OvalDen(w, h) == (w - 1) * (w - 1) * (h - 1) * (h - 1)

\* d > 1.0
OutsideOval(w, h, px, py) == OvalNum(w, h, px, py) > OvalDen(w, h)

\* d, at a resolution of 1/100
OvalD100(w, h, px, py) == ISqrt((10000 * OvalNum(w, h, px, py)) \div OvalDen(w, h))

\* d > 1.0 - borderU, borderU = (borderPixels / targetWidth) * 2
InOvalBorder(opt, w, h, px, py) ==
    LET inner == w - 2 * BorderPixels(opt)
    IN \/ inner < 0
       \/ OvalNum(w, h, px, py) * w * w > inner * inner * OvalDen(w, h)

MinDist(w, h, px, py) == Min2(Min2(px, w - 1 - px), Min2(py, h - 1 - py))

\* the rectangular test with <= : the ring at distance borderPixels is shaped too
IsInBorderInclusive(opt, w, h, px, py) ==
    IF opt.border.type = "oval"
    THEN ~OutsideOval(w, h, px, py) /\ InOvalBorder(opt, w, h, px, py)
    ELSE MinDist(w, h, px, py) <= BorderPixels(opt)

IsInBorder(opt, w, h, px, py) ==
    IF opt.border.type = "oval"
    THEN ~OutsideOval(w, h, px, py) /\ InOvalBorder(opt, w, h, px, py)
    ELSE MinDist(w, h, px, py) < BorderPixels(opt)

\* t: 0 at the outer edge, 1 at the inner edge of the border
BorderT(opt, w, h, px, py) ==
    IF opt.border.type = "oval"
    THEN Q((100 - Min2(100, OvalD100(w, h, px, py))) * w, 200 * BorderPixels(opt))
    ELSE Q(MinDist(w, h, px, py), BorderPixels(opt))

\* the profile with a groove that dips from the lip's height to 0.8 * bDepthMm
FrameProfileShallowGroove(t, bDepthMm) ==
    IF QLt(t, Q(1, 5)) THEN QInt(bDepthMm)
    ELSE IF QLt(t, Q(2, 5))
    THEN LET t2 == QMul(QSub(t, Q(1, 5)), QInt(5))
         IN QMul(QInt(bDepthMm), QSub(QInt(1), QMul(SinPi(t2), Q(1, 5))))
    ELSE IF QLt(t, Q(4, 5))
    THEN LET t3 == QMul(QSub(t, Q(2, 5)), Q(5, 2))
         IN QMul(QInt(bDepthMm), QAdd(Q(3, 5), QMul(SinPi(t3), Q(2, 5))))
    ELSE LET t4 == QMul(QSub(t, Q(4, 5)), QInt(5))
         IN QMul(QMul(QInt(bDepthMm), Q(3, 5)), QSub(QInt(1), t4))

FrameProfile(t, bDepthMm) ==
    IF QLt(t, Q(1, 5)) THEN QInt(bDepthMm)
    ELSE IF QLt(t, Q(2, 5))
    THEN LET t2 == QMul(QSub(t, Q(1, 5)), QInt(5))
         IN QMul(QInt(bDepthMm), QSub(Q(4, 5), QMul(SinPi(t2), Q(1, 5))))
    ELSE IF QLt(t, Q(4, 5))
    THEN LET t3 == QMul(QSub(t, Q(2, 5)), Q(5, 2))
         IN QMul(QInt(bDepthMm), QAdd(Q(3, 5), QMul(SinPi(t3), Q(2, 5))))
    ELSE LET t4 == QMul(QSub(t, Q(4, 5)), QInt(5))
         IN QMul(QMul(QInt(bDepthMm), Q(3, 5)), QSub(QInt(1), t4))

\* the switch on options.border.type
TargetBorderZ(opt, t) ==
    CASE opt.border.type = "flat" -> QInt(opt.border.depthMm)
      [] opt.border.type \in {"oval", "rounded"} ->
             QMul(CosHalfPi(t), QInt(opt.border.depthMm))
      [] opt.border.type = "chamfer" ->
             QMul(QSub(QInt(1), t), QInt(opt.border.depthMm))
      [] opt.border.type = "frame" -> FrameProfile(t, opt.border.depthMm)
      [] OTHER -> QInt(0)

\* (targetBorderZ - zMin) / range
BorderVal(opt, t) ==
    QDiv(QSub(TargetBorderZ(opt, t), QInt(opt.minHeight)),
         QInt(opt.maxHeight - opt.minHeight))

\* the border block without its depth !== -1 tests: the border shapes holes too
AfterBorderOverHoles(opt, w, h, px, py, depth) ==
    IF opt.border.type # "none"
    THEN IF opt.border.type = "oval" /\ OutsideOval(w, h, px, py) THEN Hole
         ELSE IF IsInBorder(opt, w, h, px, py)
              THEN BorderVal(opt, BorderT(opt, w, h, px, py))
              ELSE depth
    ELSE depth

\* the border block: skipped for a hole and for border.type 'none'
AfterBorder(opt, w, h, px, py, depth) ==
    IF depth # Hole /\ opt.border.type # "none"
    THEN IF opt.border.type = "oval" /\ OutsideOval(w, h, px, py) THEN Hole
         ELSE IF IsInBorder(opt, w, h, px, py)
              THEN BorderVal(opt, BorderT(opt, w, h, px, py))
              ELSE depth
    ELSE depth

\* the value stored in depthData for cell i
CellDepth(opt, w, h, i, p) ==
    LET px == CellX(i, w)
        py == CellY(i, w)
        depth == AfterBorder(opt, w, h, px, py, AfterMounting(opt, w, px, py, p))
    IN IF ~IsVisible(opt, p) THEN Hole ELSE depth

\* Math.floor(depth * 255) clamped to 0..255 and stored in the preview
DisplayGray(depth) ==
    IF depth.d = 0 THEN (IF depth.n > 0 THEN 255 ELSE 0)
    ELSE Max2(0, Min2(255, Floor(depth.n * 255, depth.d)))

PreviewPixel(depth) ==
    IF depth = Hole THEN [r |-> 0, g |-> 0, b |-> 0, a |-> 0]
    ELSE [r |-> DisplayGray(depth), g |-> DisplayGray(depth),
          b |-> DisplayGray(depth), a |-> 255]

(***************************************************************************)
(* processImage, step 4: vertices (processing.ts 604-719)                  *)
(***************************************************************************)
\* let thickness = options.baseMm; if (depth >= 0) thickness += minHeight + ...
Thickness(opt, depth) ==
    IF QGe(depth, QInt(0))
    THEN QAdd(QInt(opt.baseMm),
              QAdd(QInt(opt.minHeight),
                   QMul(depth, QInt(opt.maxHeight - opt.minHeight))))
    ELSE QInt(opt.baseMm)

\* pX = (x * cellW) - (widthMm / 2), cellW = widthMm / (w - 1), as one fraction
FlatX(opt, w, x) == Q(opt.widthMm * (2 * x - (w - 1)), 2 * (w - 1))

\* pY and yPos = -((y * cellH) - (heightMm / 2)), cellH = heightMm / (h - 1),
\* heightMm = (h / w) * widthMm, as one fraction
YPos(opt, w, h, y) == Q(h * opt.widthMm * ((h - 1) - 2 * y), 2 * w * (h - 1))

\* a radius is kept as the pair (overPi, plus), standing for overPi / PI + plus;
\* baseRadius = widthMm / (2 * PI), and widthMm / angleRad for the arc
BaseRadius(opt) ==
    IF opt.shape.type = "arc"
    THEN [overPi |-> Q(opt.widthMm * 180, opt.shape.angle), plus |-> QInt(0)]
    ELSE [overPi |-> Q(opt.widthMm, 2), plus |-> QInt(0)]

\* rOuter = baseRadius + thickness (rInner: thickness 0)
RadiusPlus(radius, thickness) ==
    [overPi |-> radius.overPi, plus |-> QAdd(radius.plus, thickness)]

\* the angle theta (theta + offset for the arc) as a multiple of PI
ThetaOverPi(opt, w, x) ==
    IF opt.shape.type = "arc"
    THEN QSub(QMul(QSub(Q(x, w - 1), Q(1, 2)), Q(opt.shape.angle, 180)), Q(1, 2))
    ELSE Q(2 * x, w - 1)

\* phi = v * PI as a multiple of PI
PhiOverPi(h, y) == Q(y, h - 1)

\* the shape mapper at the given thickness: the point r * (cos, sin) of the
\* cylinder and the arc, r * (sin phi cos theta, cos phi, sin phi sin theta)
\* of the sphere, are kept by their radius and angles; every other
\* shape.type takes the flat branch
ShapePosition(opt, w, h, c, thickness) ==
    CASE opt.shape.type \in {"cylinder", "arc"} ->
             [r |-> RadiusPlus(BaseRadius(opt), thickness),
              theta |-> ThetaOverPi(opt, w, CellX(c, w)),
              y |-> YPos(opt, w, h, CellY(c, w))]
      [] opt.shape.type = "sphere" ->
             [r |-> RadiusPlus(BaseRadius(opt), thickness),
              theta |-> ThetaOverPi(opt, w, CellX(c, w)),
              phi |-> PhiOverPi(h, CellY(c, w))]
      [] OTHER ->
             [x |-> FlatX(opt, w, CellX(c, w)),
              y |-> YPos(opt, w, h, CellY(c, w)),
              z |-> thickness]

\* the two vertices pushed for a cell, kept as the cell's grid coordinates
\* and the thickness the shape mapper is applied to: the surface vertex at
\* the cell's thickness beyond the base surface, and the base vertex on it
TopVertex(opt, w, c, depth) ==
    [x |-> CellX(c, w), y |-> CellY(c, w), off |-> Thickness(opt, depth)]

BaseVertex(opt, w, c, depth) ==
    [x |-> CellX(c, w), y |-> CellY(c, w), off |-> QInt(0)]

\* the vertex buffer, one entry per pushed (x, y, z) triple, indexed from 0
BuildVertices(opt, w, h, dd) ==
    [k \in 0 .. (2 * w * h - 1) |->
        IF k % 2 = 0 THEN TopVertex(opt, w, k \div 2, dd[k \div 2])
        ELSE BaseVertex(opt, w, k \div 2, dd[k \div 2])]

\* the numbers pushed for the vertex v of the buffer
PushedPosition(opt, w, h, v) == ShapePosition(opt, w, h, v.y * w + v.x, v.off)

(***************************************************************************)
(* Faces and boundary edges (processing.ts 721-793)                        *)
(***************************************************************************)
getIdx(x, y, layer, w) == ((y * w) + x) * 2 + layer

isValid(x, y, w, h, dd) ==
    IF x < 0 \/ x >= w \/ y < 0 \/ y >= h THEN FALSE
    ELSE dd[y * w + x] # Hole

\* the Map key `${u}_${v}` as a sequence of characters
DigitChars == <<"0", "1", "2", "3", "4", "5", "6", "7", "8", "9">>

RECURSIVE Digits(_)
Digits(n) ==
    IF n < 10 THEN <<DigitChars[n + 1]>>
    ELSE Digits(n \div 10) \o <<DigitChars[(n % 10) + 1]>>

EdgeKey(u, v) == Digits(u) \o <<"_">> \o Digits(v)

\* parseInt(str, 10) of a digit string
RECURSIVE ParseInt(_)
ParseInt(str) ==
    IF str = <<>> THEN 0
    ELSE 10 * ParseInt(SubSeq(str, 1, Len(str) - 1))
         + ((CHOOSE k \in 1 .. 10 : DigitChars[k] = str[Len(str)]) - 1)

\* key.split('_'): the parts before and after the separator
SplitPos(key) == CHOOSE k \in 1 .. Len(key) : key[k] = "_"

KeyU(key) == ParseInt(SubSeq(key, 1, SplitPos(key) - 1))

KeyV(key) == ParseInt(SubSeq(key, SplitPos(key) + 1, Len(key)))

InSeq(s, e) == \E k \in 1 .. Len(s) : s[k] = e

RECURSIVE Without(_, _)
Without(s, e) ==
    IF s = <<>> THEN <<>>
    ELSE IF Head(s) = e THEN Without(Tail(s), e)
    ELSE <<Head(s)>> \o Without(Tail(s), e)

\* addEdge looking up the edge's own key instead of the reversed one
addEdgeSameKey(be, u, v) ==
    IF InSeq(be, EdgeKey(u, v)) THEN Without(be, EdgeKey(u, v))
    ELSE Append(be, EdgeKey(u, v))

\* boundaryEdges is the Map's key list in insertion order
addEdge(be, u, v) ==
    IF InSeq(be, EdgeKey(v, u)) THEN Without(be, EdgeKey(v, u))
    ELSE IF InSeq(be, EdgeKey(u, v)) THEN be
    ELSE Append(be, EdgeKey(u, v))

addTriangleEdges(be, a, b, c) == addEdge(addEdge(addEdge(be, a, b), b, c), c, a)

NumBlocks(w, h) == (w - 1) * (h - 1)

\* the face loop with the second triangle's test of its bottom-right cell left out
BlockTrianglesNoBRTest(x, y, w, h, dd) ==
    LET t1 == isValid(x, y, w, h, dd) /\ isValid(x, y + 1, w, h, dd)
                /\ isValid(x + 1, y, w, h, dd)
        t2 == isValid(x + 1, y, w, h, dd) /\ isValid(x, y + 1, w, h, dd)
    IN (IF t1 THEN <<(<<getIdx(x, y, 0, w), getIdx(x, y + 1, 0, w), getIdx(x + 1, y, 0, w)>>),
                     (<<getIdx(x, y, 1, w), getIdx(x + 1, y, 1, w), getIdx(x, y + 1, 1, w)>>)>>
        ELSE <<>>)
       \o (IF t2 THEN <<(<<getIdx(x + 1, y, 0, w), getIdx(x, y + 1, 0, w),
                            getIdx(x + 1, y + 1, 0, w)>>),
                          (<<getIdx(x + 1, y, 1, w), getIdx(x + 1, y + 1, 1, w),
                             getIdx(x, y + 1, 1, w)>>)>>
           ELSE <<>>)

\* the body of the face loop for the block with top-left cell (x, y):
\* the triangles pushed to indices
BlockTriangles(x, y, w, h, dd) ==
    LET t1 == isValid(x, y, w, h, dd) /\ isValid(x, y + 1, w, h, dd)
                /\ isValid(x + 1, y, w, h, dd)
        t2 == isValid(x + 1, y, w, h, dd) /\ isValid(x, y + 1, w, h, dd)
                /\ isValid(x + 1, y + 1, w, h, dd)
        tTL == getIdx(x, y, 0, w)
        tTR == getIdx(x + 1, y, 0, w)
        tBL == getIdx(x, y + 1, 0, w)
        tBR == getIdx(x + 1, y + 1, 0, w)
        bTL == getIdx(x, y, 1, w)
        bTR == getIdx(x + 1, y, 1, w)
        bBL == getIdx(x, y + 1, 1, w)
        bBR == getIdx(x + 1, y + 1, 1, w)
    IN (IF t1 THEN <<(<<tTL, tBL, tTR>>), (<<bTL, bTR, bBL>>)>> ELSE <<>>)
       \o (IF t2 THEN <<(<<tTR, tBL, tBR>>), (<<bTR, bBR, bBL>>)>> ELSE <<>>)

IsTop(tri) == tri[1] % 2 = 0 /\ tri[2] % 2 = 0 /\ tri[3] % 2 = 0

IsBottom(tri) == tri[1] % 2 = 1 /\ tri[2] % 2 = 1 /\ tri[3] % 2 = 1

\* addEdge for the three edges of every top triangle of the list, in order
RECURSIVE BlockEdges(_, _)
BlockEdges(be, tris) ==
    IF tris = <<>> THEN be
    ELSE IF IsTop(Head(tris))
         THEN BlockEdges(addTriangleEdges(be, Head(tris)[1], Head(tris)[2], Head(tris)[3]),
                         Tail(tris))
         ELSE BlockEdges(be, Tail(tris))

(***************************************************************************)
(* Walls (processing.ts 795-819)                                           *)
(***************************************************************************)
\* a wall of one triangle only
WallQuadHalf(key) ==
    LET u == KeyU(key)
        v == KeyV(key)
    IN <<(<<u, v, v + 1>>)>>

WallQuad(key) ==
    LET u == KeyU(key)
        v == KeyV(key)
        uBot == u + 1
        vBot == v + 1
    IN <<(<<u, v, vBot>>), (<<u, vBot, uBot>>)>>

RECURSIVE Walls(_)
Walls(be) == IF be = <<>> THEN <<>> ELSE WallQuad(Head(be)) \o Walls(Tail(be))

(***************************************************************************)
(* Inputs                                                                  *)
(***************************************************************************)
\* DEFAULT_OPTIONS of types.ts, lengths in hundredths of a millimetre,
\* contrast / brightness / gamma / smoothing in tenths
DefaultOptions ==
    [layerCount |-> 6, minHeight |-> 60, maxHeight |-> 300, widthMm |-> 10000,
     invert |-> FALSE, smoothing |-> 0,
     layerVisibility |-> [present |-> TRUE, flags |-> <<>>],
     contrast |-> 10, brightness |-> 10, gamma |-> 10,
     backgroundRemoval |-> FALSE, backgroundThreshold |-> 250,
     baseMm |-> 200, pixelSize |-> 15,
     border |-> [type |-> "none", widthMm |-> 300, depthMm |-> 300],
     shape |-> [type |-> "flat", angle |-> 180],
     mounting |-> [enabled |-> FALSE, diameterMm |-> 500, offsetMm |-> 500]]

BorderTypes == {"none", "flat", "rounded", "chamfer", "oval", "frame"}

\* the coarsest resolution of the UI: 0.4 mm per pixel
CoarsePixelSize == 40

Px(r, g, b) == [r |-> r, g |-> g, b |-> b, a |-> 255]

Black == Px(0, 0, 0)

MidGray == Px(128, 128, 128)

White == Px(255, 255, 255)

\* options for a print of w cells in width
OptionsForWidth(w) ==
    [DefaultOptions EXCEPT !.pixelSize = CoarsePixelSize, !.widthMm = w * CoarsePixelSize]

\* the face loop: for y ... for x ..., block (x, y) has number y * (w - 1) + x
RowMajor(w, h) == [k \in 1 .. NumBlocks(w, h) |-> k - 1]

Reversed(s) == [k \in 1 .. Len(s) |-> s[Len(s) + 1 - k]]

ColumnMajor(w, h) ==
    [k \in 1 .. NumBlocks(w, h) |-> ((k - 1) % (h - 1)) * (w - 1) + ((k - 1) \div (h - 1))]

BlockPermutations(n) ==
    {s \in [1 .. n -> 0 .. (n - 1)] : \A i, j \in 1 .. n : i # j => s[i] # s[j]}

\* the orders the order-independence of addEdge is checked under: every
\* permutation of the blocks of a small grid, four sweeps of a larger one
Orders(w, h) ==
    IF NumBlocks(w, h) <= MaxPermBlocks THEN BlockPermutations(NumBlocks(w, h))
    ELSE {RowMajor(w, h), Reversed(RowMajor(w, h)),
          ColumnMajor(w, h), Reversed(ColumnMajor(w, h))}

\* images whose white pixels background removal cuts away: any hole mask
\* with at most MaxHoles holes
MaskImages(w, h) ==
    {d \in [Cells(w, h) -> {MidGray, White}] :
        Cardinality({c \in Cells(w, h) : d[c] = White}) <= MaxHoles}

\* images of two tones in a checkerboard, and the uniform mid-gray image
TwoToneImages(w, h) ==
    {[c \in Cells(w, h) |-> IF (CellX(c, w) + CellY(c, w)) % 2 = 0 THEN p ELSE q] :
        p \in {Black, MidGray, White}, q \in {Black, MidGray}}

\* layerVisibility: absent, one flag per layer, or an array of another length
VisibilityChoices(levels) ==
    {[present |-> FALSE, flags |-> <<>>],
     [present |-> TRUE, flags |-> [k \in 1 .. (levels + 1) |-> FALSE]]}
    \cup {[present |-> TRUE, flags |-> f] : f \in [1 .. levels -> BOOLEAN]}

BorderChoices ==
    {[type |-> "none", widthMm |-> 300, depthMm |-> 300]}
    \cup {[type |-> t, widthMm |-> CoarsePixelSize, depthMm |-> z] :
            t \in BorderTypes \ {"none"}, z \in {20, 100, 300}}

\* (minHeight, maxHeight): the defaults, a narrow range, and an empty range
HeightChoices == {<<60, 300>>, <<200, 300>>, <<100, 100>>}

MountingChoices ==
    {[enabled |-> FALSE, diameterMm |-> 500, offsetMm |-> 500],
     [enabled |-> TRUE, diameterMm |-> 2 * CoarsePixelSize, offsetMm |-> CoarsePixelSize]}

HeightFieldOptions(w) ==
    UNION {
      {[OptionsForWidth(w) EXCEPT !.layerCount = l, !.invert = inv, !.layerVisibility = vis,
                                 !.backgroundRemoval = bg, !.border = bd,
                                 !.minHeight = mm[1], !.maxHeight = mm[2], !.mounting = mt] :
          inv \in BOOLEAN, vis \in VisibilityChoices(l), bg \in BOOLEAN,
          bd \in BorderChoices, mm \in HeightChoices, mt \in MountingChoices} :
      l \in 2 .. MaxLayers}

(***************************************************************************)
(* The state machine: img.onload of processImage, phase by phase           *)
(***************************************************************************)
\* null of a URL, of a ProcessResult, of a timer id, of a storage item
NoUrl == ""

NoResult == <<>>

NoTimer == <<>>

NoItem == <<>>

\* the useState initial values of App, before any call of processImage
AppMounted(opts) ==
    /\ file = FALSE
    /\ sourceUrl = NoUrl
    /\ isCropping = FALSE
    /\ appOptions = opts
    /\ isProcessing = FALSE
    /\ result = NoResult
    /\ timer = NoTimer
    /\ calls = <<>>

\* the state when onload fires and getImageData has returned the canvas
Loaded(opt, im, d, ord) ==
    /\ pixels = d
    /\ results = <<>>
    /\ AppMounted(opt)
    /\ storage = NoItem
    /\ options = opt
    /\ img = im
    /\ data = d
    /\ preview = d
    /\ pc = "loaded"
    /\ depthData = [c \in DOMAIN d |-> QInt(0)]
    /\ vertices = <<>>
    /\ indices = <<>>
    /\ boundaryEdges = <<>>
    /\ order = ord
    /\ blk = 0

Init ==
    \E w \in 2 .. MaxW, h \in 2 .. MaxH :
        \E d \in MaskImages(w, h) :
            Loaded([OptionsForWidth(w) EXCEPT !.backgroundRemoval = TRUE, !.layerCount = 2],
                   [width |-> w, height |-> h], d, RowMajor(w, h))

\* as Init, with the face loop visiting the blocks in any of Orders(w, h)
InitOrder ==
    \E w \in 2 .. MaxW, h \in 2 .. MaxH :
        \E d \in MaskImages(w, h), ord \in Orders(w, h) :
            Loaded([OptionsForWidth(w) EXCEPT !.backgroundRemoval = TRUE, !.layerCount = 2],
                   [width |-> w, height |-> h], d, ord)

InitHeightField ==
    \E opt \in HeightFieldOptions(FieldW) :
        \E d \in TwoToneImages(FieldW, FieldH) :
            Loaded(opt, [width |-> FieldW, height |-> FieldH], d, RowMajor(FieldW, FieldH))

\* applyImageAdjustments and the optional blur
Adjust ==
    /\ pc = "loaded"
    /\ data' = Prepared(data, options, W, H)
    /\ pc' = "pixels"
    /\ UNCHANGED <<options, img, preview, depthData, vertices, indices,
                   boundaryEdges, order, blk>>
    /\ UNCHANGED <<runVars, appVars>>

\* the per-pixel loop: depthData and the preview
ProcessPixels ==
    /\ pc = "pixels"
    /\ depthData' = [i \in Cells(W, H) |-> CellDepth(options, W, H, i, data[i])]
    /\ preview' = [i \in Cells(W, H) |-> PreviewPixel(depthData'[i])]
    /\ pc' = "vertices"
    /\ UNCHANGED <<options, img, data, vertices, indices, boundaryEdges, order, blk>>
    /\ UNCHANGED <<runVars, appVars>>

\* the vertex loop
Vertices ==
    /\ pc = "vertices"
    /\ LET pushed == BuildVertices(options, W, H, depthData)
       IN vertices' = [k \in 1 .. (2 * W * H) |-> pushed[k - 1]]
    /\ pc' = "faces"
    /\ UNCHANGED <<options, img, data, preview, depthData, indices,
                   boundaryEdges, order, blk>>
    /\ UNCHANGED <<runVars, appVars>>

\* one iteration of the face loop
SurfaceBlock ==
    /\ pc = "faces"
    /\ blk < Len(order)
    /\ LET b == order[blk + 1]
           tris == BlockTriangles(b % (W - 1), b \div (W - 1), W, H, depthData)
       IN /\ indices' = indices \o tris
          /\ boundaryEdges' = BlockEdges(boundaryEdges, tris)
    /\ blk' = blk + 1
    /\ UNCHANGED <<options, img, data, preview, pc, depthData, vertices, order>>
    /\ UNCHANGED <<runVars, appVars>>

\* the wall loop over boundaryEdges.keys()
StitchWalls ==
    /\ pc = "faces"
    /\ blk = Len(order)
    /\ indices' = indices \o Walls(boundaryEdges)
    /\ pc' = "done"
    /\ UNCHANGED <<options, img, data, preview, depthData, vertices,
                   boundaryEdges, order, blk>>
    /\ UNCHANGED <<runVars, appVars>>

Next == Adjust \/ ProcessPixels \/ Vertices \/ SurfaceBlock \/ StitchWalls

Spec == Init /\ [][Next]_vars

SpecOrder == InitOrder /\ [][Next]_vars

\* the height field and the vertices built from it
NextHeightField == Adjust \/ ProcessPixels \/ Vertices

SpecHeightField == InitHeightField /\ [][NextHeightField]_vars

(***************************************************************************)
(* processImage to its resolve, called again on the same image and options *)
(* (processing.ts 310-846)                                                 *)
(***************************************************************************)
\* a mid-gray image, whole or with one white cell
OneWhiteImages(w, h) ==
    {[c \in Cells(w, h) |-> MidGray]}
    \cup {[c \in Cells(w, h) |-> IF c = k THEN White ELSE MidGray] : k \in Cells(w, h)}

\* (minHeight, maxHeight): the defaults, an empty and a negative range
ScenarioHeights == {<<60, 300>>, <<100, 100>>, <<300, 60>>}

ScenarioOptions(w) ==
    {[OptionsForWidth(w) EXCEPT !.layerCount = l, !.invert = inv, !.backgroundRemoval = bg,
                               !.minHeight = mm[1], !.maxHeight = mm[2], !.baseMm = base] :
        l \in 1 .. 2, inv \in BOOLEAN, bg \in BOOLEAN, mm \in ScenarioHeights,
        base \in {0, 200}}

InitScenario ==
    \E opt \in ScenarioOptions(ScenarioSize) :
        \E d \in OneWhiteImages(ScenarioSize, ScenarioSize) :
            Loaded(opt, [width |-> ScenarioSize, height |-> ScenarioSize], d,
                   RowMajor(ScenarioSize, ScenarioSize))

\* const vertices: number[] = [], const indices: number[] = [],
\* const boundaryEdges = new Map(): locals of the onload handler
NewVertices == <<>>

\* the index buffer of the call before, as a buffer shared by the calls would be
StaleIndices == indices

NewIndices == <<>>

NewMap == <<>>

\* resolve({previewUrl, stlBlob, geometry, width, height}); the STL bytes are
\* a function of the geometry
Resolve ==
    /\ pc = "done"
    /\ results' = Append(results,
                         [previewUrl |-> preview, depthData |-> depthData,
                          geometry |-> [position |-> vertices, index |-> indices],
                          width |-> W, height |-> H])
    /\ pc' = "resolved"
    /\ UNCHANGED <<options, img, data, preview, depthData, vertices, indices,
                   boundaryEdges, order, blk, pixels, appVars>>

\* processImage called again with the same imageUrl and options: a new
\* Image, a new canvas, new buffers
CallAgain ==
    /\ pc = "resolved"
    /\ Len(results) < MaxRuns
    /\ data' = pixels
    /\ preview' = pixels
    /\ depthData' = [c \in DOMAIN pixels |-> QInt(0)]
    /\ vertices' = NewVertices
    /\ indices' = NewIndices
    /\ boundaryEdges' = NewMap
    /\ blk' = 0
    /\ pc' = "loaded"
    /\ UNCHANGED <<options, img, order, runVars, appVars>>

NextScenario == Next \/ Resolve \/ CallAgain

SpecScenario == InitScenario /\ [][NextScenario]_vars

(***************************************************************************)
(* The adjustments, the blur and the pixel loop over coloured images, for  *)
(* every smoothing factor and layer count of the Controls sliders          *)
(***************************************************************************)
\* the sliders of Controls.tsx: smoothing 0 .. 1 in steps of 0.1 (tenths),
\* layerCount 2 .. 20
MaxSmoothing == 10

MinLayerCount == 2

MaxLayerCount == 20

\* colours of the test images: the extremes, primaries, grays, and two
\* colours whose luminance (127.5, 63.75) lies exactly between two buckets
Palette ==
    <<Black, White, MidGray, Px(22, 206, 0), Px(11, 103, 0), Px(255, 0, 0),
      Px(0, 255, 0), Px(0, 0, 255), Px(255, 255, 0), Px(0, 255, 255),
      Px(64, 64, 64), Px(191, 191, 191), Px(1, 1, 1), Px(254, 254, 254),
      Px(200, 100, 50), Px(233, 49, 255)>>

PaletteImages(w, h) ==
    {[c \in Cells(w, h) |-> Palette[((c + k) % Len(Palette)) + 1]] : k \in 1 .. Len(Palette)}

AllVisible(levels) == [present |-> TRUE, flags |-> [k \in 1 .. levels |-> TRUE]]

PrepareOptions(w) ==
    {[OptionsForWidth(w) EXCEPT !.layerCount = l, !.smoothing = sm,
                               !.layerVisibility = AllVisible(l)] :
        l \in MinLayerCount .. MaxLayerCount, sm \in 0 .. MaxSmoothing}

InitPrepare ==
    \E opt \in PrepareOptions(FieldW) :
        \E d \in PaletteImages(FieldW, FieldH) :
            Loaded(opt, [width |-> FieldW, height |-> FieldH], d, RowMajor(FieldW, FieldH))

NextPrepare == Adjust \/ ProcessPixels

SpecPrepare == InitPrepare /\ [][NextPrepare]_vars

(***************************************************************************)
(* The pixel loop over mounting holes of every size and place on grids of  *)
(* even and odd width                                                      *)
(***************************************************************************)
\* mounting: absent, disabled, or a hole whose diameter and offset from the
\* top edge are whole or half multiples of the pixel size
MountingHoles ==
    {NoMounting, [enabled |-> FALSE, diameterMm |-> 2 * CoarsePixelSize, offsetMm |-> 0]}
    \cup {[enabled |-> TRUE, diameterMm |-> dia * CoarsePixelSize,
           offsetMm |-> (off * CoarsePixelSize) \div 2] :
            dia \in 0 .. 4, off \in 0 .. 4}

MountingOptions(w) ==
    {[OptionsForWidth(w) EXCEPT !.layerCount = 2, !.invert = inv,
                               !.backgroundRemoval = bg, !.mounting = mt] :
        inv \in BOOLEAN, bg \in BOOLEAN, mt \in MountingHoles}

InitMounting ==
    \E w \in FieldW .. MaxW :
        \E opt \in MountingOptions(w), d \in TwoToneImages(w, FieldH) :
            Loaded(opt, [width |-> w, height |-> FieldH], d, RowMajor(w, FieldH))

SpecMounting == InitMounting /\ [][NextPrepare]_vars

(***************************************************************************)
(* The height field and the vertices for every shape of the Shape select,  *)
(* with and without a border                                               *)
(***************************************************************************)
\* the options of the Shape select and two angles of the arc's slider
ShapeChoices ==
    {[type |-> t, angle |-> 180] : t \in {"flat", "cylinder", "sphere", "circle"}}
    \cup {[type |-> "arc", angle |-> a] : a \in {90, 180}}

\* no border, flat borders below and above minHeight, and the oval border
ShapeBorders ==
    {[type |-> "none", widthMm |-> 300, depthMm |-> 300],
     [type |-> "flat", widthMm |-> CoarsePixelSize, depthMm |-> 20],
     [type |-> "flat", widthMm |-> CoarsePixelSize, depthMm |-> 300],
     [type |-> "oval", widthMm |-> CoarsePixelSize, depthMm |-> 300]}

ShapeOptions(w) ==
    {[OptionsForWidth(w) EXCEPT !.layerCount = 2, !.invert = inv, !.shape = sh,
                               !.border = bd, !.minHeight = mm[1], !.maxHeight = mm[2]] :
        inv \in BOOLEAN, sh \in ShapeChoices, bd \in ShapeBorders, mm \in HeightChoices}

InitShape ==
    \E opt \in ShapeOptions(FieldW) :
        \E d \in TwoToneImages(FieldW, FieldH) :
            Loaded(opt, [width |-> FieldW, height |-> FieldH], d, RowMajor(FieldW, FieldH))

SpecShape == InitShape /\ [][NextHeightField]_vars

(***************************************************************************)
(* The pixel loop on a square grid of FrameSize cells a side, for the      *)
(* rectangular border types at every border width up to the grid's size    *)
(***************************************************************************)
RectangularBorderTypes == {"flat", "rounded", "chamfer", "frame"}

\* border widths in steps of half a pixel: borderPixels = 0 .. FrameSize - 1
\* (a width of k + 1/2 pixels rounds up), depths below and at maxHeight
RectangularBorders ==
    {[type |-> "none", widthMm |-> 300, depthMm |-> 300]}
    \cup {[type |-> t, widthMm |-> (k * CoarsePixelSize) \div 2, depthMm |-> z] :
            t \in RectangularBorderTypes, k \in 0 .. (2 * (FrameSize - 1)), z \in {100, 300}}

\* the checkerboards with and without white cells
BorderImages(w, h) ==
    {[c \in Cells(w, h) |-> IF (CellX(c, w) + CellY(c, w)) % 2 = 0 THEN p ELSE MidGray] :
        p \in {Black, White}}

BorderOptions(w) ==
    {[OptionsForWidth(w) EXCEPT !.layerCount = 2, !.backgroundRemoval = bg, !.border = bd,
                               !.minHeight = mm[1], !.maxHeight = mm[2], !.mounting = mt] :
        bg \in BOOLEAN, bd \in RectangularBorders, mm \in {<<60, 300>>, <<200, 300>>},
        mt \in MountingChoices}

InitBorder ==
    \E opt \in BorderOptions(FrameSize) :
        \E d \in BorderImages(FrameSize, FrameSize) :
            Loaded(opt, [width |-> FrameSize, height |-> FrameSize], d,
                   RowMajor(FrameSize, FrameSize))

SpecBorder == InitBorder /\ [][NextPrepare]_vars

(***************************************************************************)
(* App (App.tsx 14-122): the component's state, the debounced processing   *)
(* effect, the processImage calls in flight and the options in             *)
(* localStorage.  A ProcessResult is represented by the number of the call *)
(* that resolved with it; the call's arguments determine it.               *)
(***************************************************************************)
\* URL.createObjectURL of an image file and of a file that does not decode,
\* and the data URL the cropper produces
PhotoUrl == "blob:photo"

CorruptUrl == "blob:corrupt"

CroppedUrl == "data:cropped"

ObjectUrls == {PhotoUrl, CorruptUrl}

\* the browser can load and decode the image at the URL
Decodable(url) == url # CorruptUrl

\* { ...DEFAULT_OPTIONS, ...parsed }
MergeOptions(defaults, parsed) ==
    [k \in DOMAIN defaults \cup DOMAIN parsed |->
        IF k \in DOMAIN parsed THEN parsed[k] ELSE defaults[k]]

\* what localStorage may hold under 'lithophane_options': nothing, a text
\* that is no JSON, or the JSON of some of the options
StorageChoices ==
    {NoItem,
     <<[valid |-> FALSE, value |-> [layerCount |-> 0]]>>,
     <<[valid |-> TRUE, value |-> [invert |-> TRUE]]>>}

\* the mount effect: the options after it ran
MountOptions(item) ==
    IF item # NoItem /\ item[1].valid THEN MergeOptions(DefaultOptions, item[1].value)
    ELSE DefaultOptions

\* Controls.updateOption: layerCount resizes layerVisibility
ResizedVisibility(opts, count) ==
    [present |-> TRUE,
     flags |-> [i \in 1 .. count |->
                  IF opts.layerVisibility.present /\ i <= Len(opts.layerVisibility.flags)
                  THEN opts.layerVisibility.flags[i] ELSE TRUE]]

updateOption(opts, key, value) ==
    IF key = "layerCount"
    THEN [opts EXCEPT !.layerCount = value,
                      !.layerVisibility = ResizedVisibility(opts, value)]
    ELSE [opts EXCEPT ![key] = value]

\* the effect Controls runs when it mounts: layerVisibility gets one flag
\* per layer, through onChange
ControlsMountEffect(opts) ==
    IF ~opts.layerVisibility.present \/ Len(opts.layerVisibility.flags) # opts.layerCount
    THEN [opts EXCEPT !.layerVisibility = ResizedVisibility(opts, opts.layerCount)]
    ELSE opts

\* the same effect after a later render: its dependency is options.layerCount,
\* it runs only when the count differs from that of the render before
ControlsEffect(old, new) ==
    IF new.layerCount # old.layerCount THEN ControlsMountEffect(new) ELSE new

\* positions of the Layer Count slider: the lowest ones and the default
LayerCounts == (MinLayerCount .. MaxLayers) \cup {DefaultOptions.layerCount}

\* the change of the options taken from the Controls: the Invert checkbox
ControlsUpdates(opts) == {updateOption(opts, "invert", ~opts.invert)}

\* the effect without its test of isCropping
DebounceWhileCropping(f, url, cropping, opts) ==
    IF ~f \/ url = NoUrl THEN NoTimer
    ELSE <<[sourceUrl |-> url, options |-> opts]>>

\* the debounce effect after a render with these values: the timer of the
\* render before is cleared, and a new one is set unless the effect returns
Debounce(f, url, cropping, opts) ==
    IF ~f \/ url = NoUrl \/ cropping THEN NoTimer
    ELSE <<[sourceUrl |-> url, options |-> opts]>>

InitApp ==
    /\ \E item \in StorageChoices :
          /\ storage = item
          /\ AppMounted(MountOptions(item))
    /\ options = DefaultOptions
    /\ img = [width |-> 1, height |-> 1]
    /\ data = <<>>
    /\ preview = <<>>
    /\ pc = "idle"
    /\ depthData = <<>>
    /\ vertices = <<>>
    /\ indices = <<>>
    /\ boundaryEdges = <<>>
    /\ order = <<>>
    /\ blk = 0
    /\ pixels = <<>>
    /\ results = <<>>

\* ImageUpload hands over a file; the settings panel with the Controls
\* is rendered from now on
handleImageSelect ==
    /\ ~file
    /\ \E url \in ObjectUrls : sourceUrl' = url
    /\ file' = TRUE
    /\ isCropping' = TRUE
    /\ appOptions' = ControlsMountEffect(appOptions)
    /\ timer' = Debounce(file', sourceUrl', isCropping', appOptions')
    /\ UNCHANGED <<isProcessing, result, calls, storage>>
    /\ UNCHANGED <<callVars, runVars>>

\* ImageCropper.getCroppedImg: needs the image loaded in the cropper
handleCropComplete ==
    /\ isCropping /\ sourceUrl # NoUrl /\ Decodable(sourceUrl)
    /\ sourceUrl' = CroppedUrl
    /\ isCropping' = FALSE
    /\ timer' = Debounce(file, sourceUrl', isCropping', appOptions)
    /\ UNCHANGED <<file, appOptions, isProcessing, result, calls, storage>>
    /\ UNCHANGED <<callVars, runVars>>

handleCropCancel ==
    /\ isCropping /\ sourceUrl # NoUrl
    /\ isCropping' = FALSE
    /\ timer' = Debounce(file, sourceUrl, isCropping', appOptions)
    /\ UNCHANGED <<file, sourceUrl, appOptions, isProcessing, result, calls, storage>>
    /\ UNCHANGED <<callVars, runVars>>

\* the Recrop button: setIsCropping(true)
Recrop ==
    /\ file /\ ~isCropping
    /\ isCropping' = TRUE
    /\ timer' = Debounce(file, sourceUrl, isCropping', appOptions)
    /\ UNCHANGED <<file, sourceUrl, appOptions, isProcessing, result, calls, storage>>
    /\ UNCHANGED <<callVars, runVars>>

\* Controls onChange = setOptions (the panel is covered while cropping)
ControlsChange ==
    /\ file /\ ~isCropping
    /\ \E o \in ControlsUpdates(appOptions) : appOptions' = o
    /\ timer' = Debounce(file, sourceUrl, isCropping, appOptions')
    /\ UNCHANGED <<file, sourceUrl, isCropping, isProcessing, result, calls, storage>>
    /\ UNCHANGED <<callVars, runVars>>

handleResetSettings ==
    /\ file /\ ~isCropping
    /\ appOptions # DefaultOptions
    /\ appOptions' = ControlsEffect(appOptions, DefaultOptions)
    /\ timer' = Debounce(file, sourceUrl, isCropping, appOptions')
    /\ UNCHANGED <<file, sourceUrl, isCropping, isProcessing, result, calls, storage>>
    /\ UNCHANGED <<callVars, runVars>>

\* the Layer Count slider: updateOption('layerCount', count), then the effect
LayerCountChange ==
    /\ file /\ ~isCropping
    /\ \E count \in LayerCounts :
          /\ count # appOptions.layerCount
          /\ appOptions' = ControlsEffect(appOptions,
                                           updateOption(appOptions, "layerCount", count))
    /\ timer' = Debounce(file, sourceUrl, isCropping, appOptions')
    /\ UNCHANGED <<file, sourceUrl, isCropping, isProcessing, result, calls, storage>>
    /\ UNCHANGED <<callVars, runVars>>

\* one of the layer buttons, rendered when there is one flag per layer
toggleLayer(index) ==
    /\ file /\ ~isCropping
    /\ appOptions.layerVisibility.present
    /\ Len(appOptions.layerVisibility.flags) = appOptions.layerCount
    /\ index \in 0 .. (appOptions.layerCount - 1)
    /\ appOptions' =
          updateOption(appOptions, "layerVisibility",
                       [present |-> TRUE,
                        flags |-> [appOptions.layerVisibility.flags
                                      EXCEPT ![index + 1] = ~@]])
    /\ timer' = Debounce(file, sourceUrl, isCropping, appOptions')
    /\ UNCHANGED <<file, sourceUrl, isCropping, isProcessing, result, calls, storage>>
    /\ UNCHANGED <<callVars, runVars>>

handleNewImage ==
    /\ file /\ ~isCropping
    /\ file' = FALSE
    /\ sourceUrl' = NoUrl
    /\ result' = NoResult
    /\ isCropping' = FALSE
    /\ timer' = Debounce(file', sourceUrl', isCropping', appOptions)
    /\ UNCHANGED <<appOptions, isProcessing, calls, storage>>
    /\ UNCHANGED <<callVars, runVars>>

\* the timer fires: process() up to its await; processImage creates the
\* Image and sets its src
TimerFires ==
    /\ timer # NoTimer
    /\ Len(calls) < MaxCalls
    /\ isProcessing' = TRUE
    /\ calls' = Append(calls, [sourceUrl |-> timer[1].sourceUrl,
                                options |-> timer[1].options,
                                image |-> "loading", promise |-> "pending"])
    /\ timer' = NoTimer
    /\ UNCHANGED <<file, sourceUrl, isCropping, appOptions, result, storage>>
    /\ UNCHANGED <<callVars, runVars>>

\* img.onload of call i runs to resolve(); process() continues after its
\* await: setResult(res), and setIsProcessing(false) in the finally
ImageLoads(i) ==
    /\ calls[i].image = "loading"
    /\ Decodable(calls[i].sourceUrl)
    /\ calls' = [calls EXCEPT ![i].image = "loaded", ![i].promise = "resolved"]
    /\ result' = <<[call |-> i]>>
    /\ isProcessing' = FALSE
    /\ UNCHANGED <<file, sourceUrl, isCropping, appOptions, timer, storage>>
    /\ UNCHANGED <<callVars, runVars>>

\* img.onload of call i throws (no canvas context): the catch rejects, and
\* process() logs the error and runs its finally
OnloadThrows(i) ==
    /\ calls[i].image = "loading"
    /\ Decodable(calls[i].sourceUrl)
    /\ calls' = [calls EXCEPT ![i].image = "loaded", ![i].promise = "rejected"]
    /\ isProcessing' = FALSE
    /\ UNCHANGED <<file, sourceUrl, isCropping, appOptions, result, timer, storage>>
    /\ UNCHANGED <<callVars, runVars>>

\* the image of call i fails to load or decode: the browser dispatches the
\* error event, for which processImage registered no handler
ImageFails(i) ==
    /\ calls[i].image = "loading"
    /\ ~Decodable(calls[i].sourceUrl)
    /\ calls' = [calls EXCEPT ![i].image = "error"]
    /\ UNCHANGED <<file, sourceUrl, isCropping, appOptions, isProcessing, result, timer,
                   storage>>
    /\ UNCHANGED <<callVars, runVars>>

\* the page is loaded again: the state is the initial one, the calls of the
\* page before are gone, and the mount effect reads localStorage
Reload ==
    /\ file' = FALSE
    /\ sourceUrl' = NoUrl
    /\ isCropping' = FALSE
    /\ appOptions' = MountOptions(storage)
    /\ isProcessing' = FALSE
    /\ result' = NoResult
    /\ timer' = NoTimer
    /\ calls' = <<>>
    /\ UNCHANGED storage
    /\ UNCHANGED <<callVars, runVars>>

NextApp ==
    \/ handleImageSelect
    \/ handleCropComplete
    \/ handleCropCancel
    \/ Recrop
    \/ ControlsChange
    \/ handleResetSettings
    \/ handleNewImage
    \/ TimerFires
    \/ \E i \in 1 .. Len(calls) : ImageLoads(i) \/ OnloadThrows(i) \/ ImageFails(i)
    \/ Reload

SpecApp == InitApp /\ [][NextApp]_vars

\* one page load with nothing in localStorage
InitSession == InitApp /\ storage = NoItem

\* the handlers, the timer and the calls whose image loads or fails
NextSession ==
    \/ handleImageSelect
    \/ handleCropComplete
    \/ handleCropCancel
    \/ Recrop
    \/ ControlsChange
    \/ handleResetSettings
    \/ handleNewImage
    \/ TimerFires
    \/ \E i \in 1 .. Len(calls) : ImageLoads(i) \/ ImageFails(i)

SpecSession == InitSession /\ [][NextSession]_vars

\* the settings panel: the Controls, 'Defaults', 'Crop' and 'New', with no
\* timer firing
NextControls ==
    \/ handleImageSelect
    \/ handleCropComplete
    \/ handleCropCancel
    \/ Recrop
    \/ ControlsChange
    \/ LayerCountChange
    \/ \E index \in 0 .. (MaxLayerCount - 1) : toggleLayer(index)
    \/ handleResetSettings
    \/ handleNewImage

SpecControls == InitSession /\ [][NextControls]_vars

(***************************************************************************)
(* Vocabulary of the properties                                            *)
(***************************************************************************)
TriEdges(tri) == {<<tri[1], tri[2]>>, <<tri[2], tri[3]>>, <<tri[3], tri[1]>>}

\* number of triangles of the index buffer that traverse a -> b
DirCount(a, b) ==
    Cardinality({k \in 1 .. Len(indices) : <<a, b>> \in TriEdges(indices[k])})

\* number of triangles of the index buffer with the edge {a, b}
UndirCount(a, b) ==
    Cardinality({k \in 1 .. Len(indices) :
                    <<a, b>> \in TriEdges(indices[k]) \/ <<b, a>> \in TriEdges(indices[k])})

AllEdges == UNION {TriEdges(indices[k]) : k \in 1 .. Len(indices)}

TopTris == {k \in 1 .. Len(indices) : IsTop(indices[k])}

BottomTris == {k \in 1 .. Len(indices) : IsBottom(indices[k])}

WallTris == (1 .. Len(indices)) \ (TopTris \cup BottomTris)

TopEdges == UNION {TriEdges(indices[k]) : k \in TopTris}

\* number of top triangles with the edge {a, b}
TopUndirCount(a, b) ==
    Cardinality({k \in TopTris :
                    <<a, b>> \in TriEdges(indices[k]) \/ <<b, a>> \in TriEdges(indices[k])})

BoundaryKeys == {boundaryEdges[k] : k \in 1 .. Len(boundaryEdges)}

HoleCells == {c \in Cells(W, H) : depthData[c] = Hole}

FacesDone == (pc = "faces" /\ blk = Len(order)) \/ pc = "done"

(***************************************************************************)
(* C1: after wall stitching every undirected edge of the index buffer is   *)
(* an edge of exactly two triangles, for every grid size and hole mask.    *)
(***************************************************************************)
C1_EveryEdgeInTwoTriangles ==
    pc = "done" => \A e \in AllEdges : UndirCount(e[1], e[2]) = 2

(***************************************************************************)
(* C2: the winding is consistent: every directed edge of the index buffer  *)
(* is traversed by exactly one triangle and its reverse by exactly one     *)
(* other triangle.                                                         *)
(***************************************************************************)
C2_ConsistentWinding ==
    pc = "done" =>
        \A e \in AllEdges : DirCount(e[1], e[2]) = 1 /\ DirCount(e[2], e[1]) = 1

(***************************************************************************)
(* C3: once every top triangle went through addEdge, boundaryEdges holds   *)
(* exactly the directed top edges whose reverse is no top edge, which are  *)
(* the edges bounding exactly one top triangle, each once, whatever the    *)
(* order in which the blocks were visited.                                 *)
(***************************************************************************)
C3_BoundaryIsTopologicalBoundary ==
    FacesDone =>
        /\ BoundaryKeys = {EdgeKey(e[1], e[2]) : e \in {f \in TopEdges : <<f[2], f[1]>> \notin TopEdges}}
        /\ BoundaryKeys = {EdgeKey(e[1], e[2]) : e \in {f \in TopEdges : TopUndirCount(f[1], f[2]) = 1}}
        /\ Cardinality(BoundaryKeys) = Len(boundaryEdges)

\* a visiting order other than the loop's, two holes, one on the rim and one
\* inside, and both cancelled and surviving edges
C3_Witness ==
    /\ FacesDone
    /\ order # RowMajor(W, H)
    /\ Cardinality(HoleCells) >= 2
    /\ \E c \in HoleCells : MinDist(W, H, CellX(c, W), CellY(c, W)) = 0
    /\ \E c \in HoleCells : MinDist(W, H, CellX(c, W), CellY(c, W)) > 0
    /\ boundaryEdges # <<>>
    /\ \E e \in TopEdges : <<e[2], e[1]>> \in TopEdges

(***************************************************************************)
(* C4: every boundary edge u -> v gets exactly one wall quad, the two      *)
(* triangles over u, v, v+1, u+1; there are 2 x |boundaryEdges| wall       *)
(* triangles and none stands on an internal edge.                          *)
(***************************************************************************)
C4_OneWallQuadPerBoundaryEdge ==
    pc = "done" =>
        /\ Cardinality(WallTris) = 2 * Len(boundaryEdges)
        /\ \A key \in BoundaryKeys :
              LET u == KeyU(key)
                  v == KeyV(key)
                  on == {k \in WallTris : {indices[k][1], indices[k][2], indices[k][3]}
                                              \subseteq {u, v, v + 1, u + 1}}
              IN /\ Cardinality(on) = 2
                 /\ {indices[k] : k \in on} = {<<u, v, v + 1>>, <<u, v + 1, u + 1>>}
        /\ \A k \in WallTris :
              \E e \in TopEdges :
                 /\ TopUndirCount(e[1], e[2]) = 1
                 /\ {indices[k][1], indices[k][2], indices[k][3]}
                        \subseteq {e[1], e[2], e[1] + 1, e[2] + 1}

\* a stitched mesh with internal edges, a hole and walls
C4_Witness ==
    /\ pc = "done"
    /\ HoleCells # {}
    /\ WallTris # {}
    /\ \E e \in TopEdges : <<e[2], e[1]>> \in TopEdges

(***************************************************************************)
(* C5: every cell, hole or filled, has its outer vertex at 2*cellIndex and *)
(* its inner vertex at 2*cellIndex+1, and no triangle references a vertex  *)
(* of a hole cell.                                                         *)
(***************************************************************************)
C5_TwoVerticesPerCellHolesUnreferenced ==
    pc \in {"faces", "done"} =>
        /\ Len(vertices) = 2 * W * H
        /\ \A c \in Cells(W, H) :
              /\ vertices[2 * c + 1] = [x |-> CellX(c, W), y |-> CellY(c, W),
                                        off |-> Thickness(options, depthData[c])]
              /\ vertices[2 * c + 2] = [x |-> CellX(c, W), y |-> CellY(c, W), off |-> QInt(0)]
        /\ \A k \in 1 .. Len(indices) : \A j \in 1 .. 3 :
              /\ indices[k][j] \in 0 .. (Len(vertices) - 1)
              /\ (indices[k][j] \div 2) \notin HoleCells

\* a stitched mesh around a hole
C5_Witness ==
    /\ pc = "done"
    /\ HoleCells # {}
    /\ TopTris # {}
    /\ WallTris # {}

(***************************************************************************)
(* Vocabulary of the height-field properties                               *)
(***************************************************************************)
PixelsDone == pc \notin {"loaded", "pixels"}

InBorderRegion(c) == MinDist(W, H, CellX(c, W), CellY(c, W)) < BorderPixels(options)

CutByMounting(c) == InMountingHole(options, W, CellX(c, W), CellY(c, W))

CutByBackground(c) == IsBackground(options, data[c])

CutByOval(c) == options.border.type = "oval" /\ OutsideOval(W, H, CellX(c, W), CellY(c, W))

CutByVisibility(c) == ~IsBackground(options, data[c]) /\ ~IsVisible(options, data[c])

IsCut(c) == CutByMounting(c) \/ CutByBackground(c) \/ CutByOval(c) \/ CutByVisibility(c)

\* the depth of a cell after inversion, mounting hole and border shaping
ShapedDepth(c) ==
    AfterBorder(options, W, H, CellX(c, W), CellY(c, W),
                AfterMounting(options, W, CellX(c, W), CellY(c, W), data[c]))

\* Math.round(depth * (levels - 1))
PhysicalLayerIdx(depth, levels) == Round(depth.n * (levels - 1), depth.d)

VisibilityApplies ==
    options.layerVisibility.present
        /\ Len(options.layerVisibility.flags) = options.layerCount

(***************************************************************************)
(* C6: with one visibility flag per layer, the mask turns a cell into a    *)
(* hole exactly when layerVisibility[round(depth*(levels-1))] is false,    *)
(* depth being the cell's depth after inversion and border shaping         *)
(* (stated for the cells where that index is one of the layers).           *)
(***************************************************************************)
C6_MaskByPhysicalLayer ==
    (PixelsDone /\ VisibilityApplies) =>
        \A c \in Cells(W, H) :
            LET idx == PhysicalLayerIdx(ShapedDepth(c), options.layerCount)
            IN (/\ ~CutByBackground(c)
                /\ ShapedDepth(c) # Hole
                /\ QIsFinite(ShapedDepth(c))
                /\ idx \in 0 .. (options.layerCount - 1)) =>
                   ((depthData[c] = Hole) <=> ~options.layerVisibility.flags[idx + 1])

(***************************************************************************)
(* C7: with invert = false and no border, of two pixels that both stay in  *)
(* the height field the strictly darker one has depth >= the other's.      *)
(***************************************************************************)
C7_DarkerIsAtLeastAsDeep ==
    (PixelsDone /\ ~options.invert /\ options.border.type = "none") =>
        \A i, j \in Cells(W, H) :
            (Gray1000(data[i]) < Gray1000(data[j])
                /\ depthData[i] # Hole /\ depthData[j] # Hole) =>
                QGe(depthData[i], depthData[j])

(***************************************************************************)
(* C8: with a flat border every cell of the border region that is not cut  *)
(* away gets the outer thickness baseMm + border.depthMm, whatever the     *)
(* image, minHeight, maxHeight and depthMm.                                *)
(***************************************************************************)
C8_FlatBorderThickness ==
    (pc \in {"faces", "done"} /\ options.border.type = "flat") =>
        \A c \in Cells(W, H) :
            (InBorderRegion(c) /\ ~IsCut(c)) =>
                vertices[2 * c + 1].off = QInt(options.baseMm + options.border.depthMm)

(***************************************************************************)
(* C9: every entry of depthData is the hole sentinel -1 or a finite        *)
(* value >= 0.                                                             *)
(***************************************************************************)
C9_DepthIsHoleOrFiniteNonNegative ==
    PixelsDone =>
        \A c \in Cells(W, H) :
            depthData[c] = Hole \/ (QIsFinite(depthData[c]) /\ depthData[c].n >= 0)

(***************************************************************************)
(* C10: holes win over borders: a cell cut by the mounting hole, by        *)
(* background removal, by the oval cut or by the visibility mask is a hole *)
(* in the final height field, for every border type, also inside the       *)
(* border region.                                                          *)
(***************************************************************************)
C10_HolesWinOverBorders ==
    PixelsDone => \A c \in Cells(W, H) : IsCut(c) => depthData[c] = Hole

\* each of the four cuts hits a cell that a border of some type would shape
C10_Witness ==
    /\ PixelsDone
    /\ options.border.type \notin {"none", "oval"}
    /\ \E c \in Cells(W, H) : InBorderRegion(c) /\ CutByMounting(c) /\ depthData[c] = Hole
    /\ \E c \in Cells(W, H) : InBorderRegion(c) /\ CutByBackground(c) /\ depthData[c] = Hole
    /\ \E c \in Cells(W, H) :
          InBorderRegion(c) /\ CutByVisibility(c) /\ ~CutByMounting(c) /\ depthData[c] = Hole

(***************************************************************************)
(* C11: when layerVisibility is absent or its length differs from          *)
(* layerCount, the pixel loop completes and the visibility mask cuts       *)
(* nothing: every cell that is not background keeps the depth that         *)
(* inversion, mounting hole and border gave it.                            *)
(***************************************************************************)
C11_MismatchedVisibilityIsAllVisible ==
    (PixelsDone /\ ~VisibilityApplies) =>
        /\ pc = "vertices" \/ Len(vertices) = 2 * W * H
        /\ \A c \in Cells(W, H) :
              /\ ~CutByVisibility(c)
              /\ ~CutByBackground(c) => depthData[c] = ShapedDepth(c)

\* an array of another length whose flags are all false, and a cell that stays
C11_Witness ==
    /\ PixelsDone
    /\ options.layerVisibility.present
    /\ Len(options.layerVisibility.flags) = options.layerCount + 1
    /\ \A k \in 1 .. Len(options.layerVisibility.flags) : ~options.layerVisibility.flags[k]
    /\ \E c \in Cells(W, H) : depthData[c] # Hole /\ QIsFinite(depthData[c])

(***************************************************************************)
(* C12: the all-(128,128,128) image of ScenarioSize x ScenarioSize cells   *)
(* with layerCount = 2, minHeight = 0.6, maxHeight = 3.0, baseMm = 0, no   *)
(* border, flat shape, no mounting hole and the other options at their     *)
(* defaults (invert = false): every cell quantizes to layerIndex 1 and     *)
(* val 1.0, no cell is a hole and every outer vertex is 3.0 mm thick.      *)
(***************************************************************************)
MidGrayScenario ==
    /\ W = ScenarioSize /\ H = ScenarioSize
    /\ \A c \in Cells(W, H) : pixels[c] = MidGray
    /\ options.layerCount = 2
    /\ options.minHeight = 60 /\ options.maxHeight = 300 /\ options.baseMm = 0
    /\ options.border.type = "none"
    /\ options.shape.type = "flat"
    /\ ~options.mounting.enabled
    /\ ~options.invert

C12_MidGrayScenarioIsUniform ==
    (MidGrayScenario /\ pc \in {"faces", "done", "resolved"}) =>
        \A c \in Cells(W, H) :
            /\ Round(Gray1000(data[c]), 255000) = 1
            /\ depthData[c] = QInt(1)
            /\ depthData[c] # Hole
            /\ vertices[2 * c + 1].off = QInt(300)

\* the scenario, resolved with its 2 x ScenarioSize^2 vertices
C12_Witness ==
    /\ MidGrayScenario
    /\ pc = "resolved"
    /\ Len(results[1].geometry.position) = 2 * ScenarioSize * ScenarioSize
    /\ results[1].geometry.position[1].off = QInt(300)

(***************************************************************************)
(* Vocabulary of the corner-hole scenario                                   *)
(***************************************************************************)
Corners(w, h) == {0, w - 1, (h - 1) * w, w * h - 1}

\* a -> b joins the outer vertices of two neighbouring cells of the grid's rim
RimEdge(a, b) ==
    LET ax == CellX(a \div 2, W)
        ay == CellY(a \div 2, W)
        bx == CellX(b \div 2, W)
        by == CellY(b \div 2, W)
    IN \/ ay = by /\ ay \in {0, H - 1} /\ Abs(ax - bx) = 1
       \/ ax = bx /\ ax \in {0, W - 1} /\ Abs(ay - by) = 1

\* the boundary edges the hole made: those that are no rim edges
HolePerimeter == {key \in BoundaryKeys : ~RimEdge(KeyU(key), KeyV(key))}

WallsOn(key) ==
    {k \in WallTris : {indices[k][1], indices[k][2], indices[k][3]}
                          \subseteq {KeyU(key), KeyV(key), KeyU(key) + 1, KeyV(key) + 1}}

OneCornerHole ==
    /\ pc \in {"done", "resolved"}
    /\ W = ScenarioSize /\ H = ScenarioSize
    /\ \E c \in Corners(W, H) : HoleCells = {c}

\* the three parts of C13
C13_TwoFewer ==
    OneCornerHole => Cardinality(TopTris \cup BottomTris) = 4 * (W - 1) * (H - 1) - 2

C13_TwoWallsPerEdge ==
    OneCornerHole =>
        /\ HolePerimeter # {}
        /\ \A key \in HolePerimeter : Cardinality(WallsOn(key)) = 2

C13_Manifold ==
    OneCornerHole => \A e \in AllEdges : UndirCount(e[1], e[2]) = 2

(***************************************************************************)
(* C13: on the ScenarioSize x ScenarioSize grid with exactly one hole, a   *)
(* corner cell (any of the four), the surface has exactly two triangles    *)
(* fewer than that of the full grid, every perimeter edge of the hole      *)
(* carries exactly two wall triangles, and every edge of the mesh is an    *)
(* edge of exactly two triangles.                                          *)
(***************************************************************************)
C13_CornerHoleRemovesTwoTriangles ==
    C13_TwoFewer /\ C13_TwoWallsPerEdge /\ C13_Manifold

(***************************************************************************)
(* C16: processImage never resolves with a mesh for a configuration with   *)
(* maxHeight <= minHeight or layerCount < 2.                               *)
(***************************************************************************)
C16_InvalidConfigurationIsNotResolved ==
    results # <<>> =>
        (options.maxHeight > options.minHeight /\ options.layerCount >= 2)

C19_QuantizationInRange ==
    (PixelsDone /\ options.layerCount >= 2) =>
        \A c \in Cells(W, H) :
            \E k \in 0 .. (options.layerCount - 1) :
                LET x2 == 2 * Gray1000(data[c]) * (options.layerCount - 1)
                IN /\ 2 * 255000 * k <= x2 + 255000
                   /\ 2 * 255000 * k > x2 - 255000
                   /\ k + 1 \in DOMAIN options.layerVisibility.flags
                   /\ depthData[c] = Q(k, options.layerCount - 1)
                   /\ QGe(depthData[c], QInt(0)) /\ QGe(QInt(1), depthData[c])

\* twenty layers, and among the pixels a white one, a black one and one
\* whose luminance is exactly half way between two buckets
C19_Witness ==
    /\ PixelsDone
    /\ options.layerCount = MaxLayerCount
    /\ \E c \in Cells(W, H) : data[c] = White /\ depthData[c] = QInt(1)
    /\ \E c \in Cells(W, H) : data[c] = Black /\ depthData[c] = QInt(0)
    /\ \E c \in Cells(W, H) :
          (2 * Gray1000(data[c]) * (options.layerCount - 1)) % 510000 = 255000

(***************************************************************************)
(* Vocabulary of the blur properties                                       *)
(***************************************************************************)
\* every channel of every pixel of data is the mean, rounded to an integer,
\* of that channel over the window of the given radius in the canvas pixels
\* (radius 0: data is the canvas unchanged)
BlurredWithRadius(radius) ==
    \A c \in Cells(W, H) : \A ch \in {"r", "g", "b"} :
        LET win == BlurWindow(c, W, H, radius)
            n == Cardinality(win)
        IN 2 * Abs(data[c][ch] * n - SumOver(win, pixels, ch)) <= n

\* max(1, round(3 * smoothing)) for the slider's positive values, in tenths
RadiusOfSlider(sm) ==
    CASE sm \in 1 .. 4 -> 1
      [] sm \in 5 .. 8 -> 2
      [] OTHER -> 3

NeutralAdjustments ==
    options.contrast = 10 /\ options.brightness = 10 /\ options.gamma = 10

(***************************************************************************)
(* C20, as claimed: the pixel buffer the loop reads is the canvas blurred   *)
(* with the radius round(3 * smoothing), which lies in 0 .. 3; a factor    *)
(* that rounds to radius 0, such as 0.1, leaves the buffer unchanged.      *)
(***************************************************************************)
C20_RadiusIsRoundOfThreeTimesSmoothing ==
    (pc # "loaded" /\ NeutralAdjustments) =>
        /\ Round(3 * options.smoothing, 10) \in 0 .. 3
        /\ BlurredWithRadius(Round(3 * options.smoothing, 10))

(***************************************************************************)
(* C20, amended: for smoothing = 0 the buffer is left unchanged; for every *)
(* positive smoothing factor up to 1 the buffer is blurred with the radius *)
(* max(1, round(3 * smoothing)), which lies in 1 .. 3: a positive factor   *)
(* that rounds to 0, such as 0.1, blurs with radius 1.                     *)
(***************************************************************************)
C20_RadiusIsAtLeastOneWhenSmoothing ==
    (pc # "loaded" /\ NeutralAdjustments) =>
        IF options.smoothing = 0 THEN data = pixels
        ELSE /\ RadiusOfSlider(options.smoothing) \in 1 .. 3
             /\ BlurredWithRadius(RadiusOfSlider(options.smoothing))

\* smoothing 0.1 has blurred the image
C20_Witness ==
    /\ pc # "loaded"
    /\ options.smoothing = 1
    /\ data # pixels
    /\ BlurredWithRadius(1)

(***************************************************************************)
(* Vocabulary of the App properties                                        *)
(***************************************************************************)
\* call j was started for another image or other options than call i
OtherRequest(i, j) ==
    calls[i].sourceUrl # calls[j].sourceUrl \/ calls[i].options # calls[j].options

(***************************************************************************)
(* C14: the stored result is never that of an older request once a newer   *)
(* request, started for changed options or a changed image, has resolved,  *)
(* whatever the order in which the two calls resolve.                      *)
(***************************************************************************)
C14_StaleResultIsDiscarded ==
    result # NoResult =>
        \A j \in 1 .. Len(calls) :
            (j > result[1].call /\ OtherRequest(result[1].call, j)) =>
                calls[j].promise # "resolved"

(***************************************************************************)
(* C15: a processImage call whose image failed to load or decode is        *)
(* settled: once the browser has dispatched the image's error event the    *)
(* promise is rejected, and when no image is still loading isProcessing is *)
(* false.                                                                  *)
(***************************************************************************)
C15_FailedLoadRejects ==
    /\ \A i \in 1 .. Len(calls) :
          calls[i].image = "error" => calls[i].promise = "rejected"
    /\ (\A i \in 1 .. Len(calls) : calls[i].image # "loading") => ~isProcessing

(***************************************************************************)
(* C18: the options of App are the ones a reload of the page would         *)
(* restore: after any change of the options, localStorage holds them under *)
(* 'lithophane_options' and the mount effect reads them back.              *)
(***************************************************************************)
C18_ReloadRestoresOptions ==
    appOptions = MountOptions(storage)

(***************************************************************************)
(* Vocabulary of the mounting-hole properties                              *)
(***************************************************************************)
\* the square of the Euclidean distance, in pixels, from cell c to the
\* point (targetWidth / 2, offsetMm / pixelSizeMm)
DistToHoleSquared(c) ==
    LET dx == QSub(QInt(CellX(c, W)), Q(W, 2))
        dy == QSub(QInt(CellY(c, W)), Q(options.mounting.offsetMm, PixelSizeMm(options)))
    IN QAdd(QMul(dx, dx), QMul(dy, dy))

\* the square of (diameterMm / 2) / pixelSizeMm
HoleRadiusSquared ==
    LET r == Q(options.mounting.diameterMm, 2 * PixelSizeMm(options))
    IN QMul(r, r)

MountingOn == options.mounting # NoMounting /\ options.mounting.enabled

\* the cell is a hole that background removal did not make (the visibility
\* mask and the border are off in SpecMounting)
CutInMountingStep(c) == depthData[c] = Hole /\ ~CutByBackground(c)

(***************************************************************************)
(* C21, as claimed: with mounting enabled a cell is cut by the mounting    *)
(* step exactly when its distance to the hole's centre is at most the      *)
(* hole's radius, a cell at exactly the radius included; with mounting     *)
(* disabled or absent the step cuts no cell.                               *)
(***************************************************************************)
C21_CutWithinRadiusInclusive ==
    PixelsDone =>
        \A c \in Cells(W, H) :
            ~CutByBackground(c) =>
                (CutInMountingStep(c) <=>
                    (MountingOn /\ QGe(HoleRadiusSquared, DistToHoleSquared(c))))

(***************************************************************************)
(* C21, amended: with mounting enabled a cell is cut by the mounting step  *)
(* exactly when its distance to the hole's centre is strictly less than    *)
(* the hole's radius; a cell at exactly the radius stays; with mounting    *)
(* disabled or absent the step cuts no cell.                               *)
(***************************************************************************)
C21_CutStrictlyInsideRadius ==
    PixelsDone =>
        \A c \in Cells(W, H) :
            ~CutByBackground(c) =>
                (CutInMountingStep(c) <=>
                    (MountingOn /\ QLt(DistToHoleSquared(c), HoleRadiusSquared)))

\* a hole that cuts one cell and leaves a cell at exactly its radius
C21_Witness ==
    /\ PixelsDone
    /\ MountingOn
    /\ \E c \in Cells(W, H) : CutInMountingStep(c)
    /\ \E c \in Cells(W, H) :
          /\ DistToHoleSquared(c) = HoleRadiusSquared
          /\ depthData[c] # Hole
          /\ ~CutByBackground(c)

(***************************************************************************)
(* Vocabulary of the shape properties                                      *)
(***************************************************************************)
\* u * u + v * v > 1 for the cell's normalized coordinates
\* u = 2 * px / (W - 1) - 1, v = 2 * py / (H - 1) - 1
OutsideUnitCircle(c) ==
    LET u == QSub(Q(2 * CellX(c, W), W - 1), QInt(1))
        v == QSub(Q(2 * CellY(c, W), H - 1), QInt(1))
    IN QLt(QInt(1), QAdd(QMul(u, u), QMul(v, v)))

RoundSilhouette == options.shape.type = "circle" \/ options.border.type = "oval"

(***************************************************************************)
(* C22: with shape.type = 'circle', and likewise with border.type =        *)
(* 'oval', every cell with u * u + v * v > 1 is a hole in the height       *)
(* field, whatever the border type is; in particular the four corner cells *)
(* of the grid are holes.                                                  *)
(***************************************************************************)
C22_RoundShapesCutOutsideUnitCircle ==
    (PixelsDone /\ RoundSilhouette) =>
        /\ \A c \in Cells(W, H) : OutsideUnitCircle(c) => depthData[c] = Hole
        /\ \A c \in Corners(W, H) : depthData[c] = Hole

\* the thickness the height formula gives a cell
FormulaThickness(c) ==
    QAdd(QInt(options.baseMm),
         QAdd(QInt(options.minHeight),
              QMul(depthData[c], QInt(options.maxHeight - options.minHeight))))

OuterPosition(c) == PushedPosition(options, W, H, vertices[2 * c + 1])

InnerPosition(c) == PushedPosition(options, W, H, vertices[2 * c + 2])

\* the outer vertex of cell c lies t beyond its inner vertex
OuterBeyondInnerBy(c, t) ==
    CASE options.shape.type \in {"cylinder", "arc"} ->
             /\ InnerPosition(c).r = BaseRadius(options)
             /\ OuterPosition(c).r.overPi = BaseRadius(options).overPi
             /\ OuterPosition(c).r.plus = t
             /\ OuterPosition(c).theta = InnerPosition(c).theta
             /\ OuterPosition(c).y = InnerPosition(c).y
      [] options.shape.type = "sphere" ->
             /\ InnerPosition(c).r = BaseRadius(options)
             /\ OuterPosition(c).r.overPi = BaseRadius(options).overPi
             /\ OuterPosition(c).r.plus = t
             /\ OuterPosition(c).theta = InnerPosition(c).theta
             /\ OuterPosition(c).phi = InnerPosition(c).phi
      [] OTHER ->
             /\ OuterPosition(c).z = t
             /\ InnerPosition(c).z = QInt(0)
             /\ OuterPosition(c).x = InnerPosition(c).x
             /\ OuterPosition(c).y = InnerPosition(c).y

\* C23 for the cells of depth >= 0 only, without the sign of T
C23_ForNonNegativeDepth ==
    pc \in {"faces", "done"} =>
        \A c \in Cells(W, H) :
            (depthData[c] # Hole /\ QGe(depthData[c], QInt(0))) =>
                /\ OuterBeyondInnerBy(c, FormulaThickness(c))

(***************************************************************************)
(* C23: for every cell that is no hole, the outer vertex lies exactly      *)
(* T = baseMm + minHeight + depth * (maxHeight - minHeight) beyond the     *)
(* inner vertex: flat, outer z = T and inner z = 0 at the same (x, y);     *)
(* cylinder, arc and sphere, outer radius baseRadius + T and inner radius  *)
(* baseRadius at the same angles; and T >= 0, the outer vertex is never    *)
(* closer to the base than the inner one.                                  *)
(***************************************************************************)
C23_OuterIsThicknessBeyondInner ==
    pc \in {"faces", "done"} =>
        \A c \in Cells(W, H) :
            depthData[c] # Hole =>
                /\ OuterBeyondInnerBy(c, FormulaThickness(c))
                /\ QGe(FormulaThickness(c), QInt(0))

(***************************************************************************)
(* Vocabulary of the debounce properties                                   *)
(***************************************************************************)
\* the values the debounce effect depends on
DebounceDeps == <<file, sourceUrl, isCropping, appOptions>>

\* at most one timer is pending, and it was set by the latest render: an
\* image is selected, the cropper is closed, and the timer's process() was
\* created with the current sourceUrl and options
OnePendingTimerOfLatestRender ==
    /\ Len(timer) <= 1
    /\ timer # NoTimer =>
          /\ file /\ sourceUrl # NoUrl /\ ~isCropping
          /\ timer[1] = [sourceUrl |-> sourceUrl, options |-> appOptions]

\* a step that starts processImage: the pending timer of the latest render
\* fires, and starts one call with the current settings
StartsOneRunWithLastSettings ==
    Len(calls') > Len(calls) =>
        /\ timer # NoTimer /\ timer' = NoTimer
        /\ file /\ sourceUrl # NoUrl /\ ~isCropping
        /\ calls' = Append(calls, calls'[Len(calls')])
        /\ calls'[Len(calls')].sourceUrl = sourceUrl
        /\ calls'[Len(calls')].options = appOptions

\* a step that changes options, sourceUrl or isCropping starts no call and
\* leaves no timer of an earlier render pending
ChangeCancelsTimer ==
    DebounceDeps' # DebounceDeps =>
        /\ Len(calls') <= Len(calls)
        /\ timer' # NoTimer => timer' # timer

(***************************************************************************)
(* C24: in App a processImage call is started only by the debounce timer   *)
(* of the latest render: every change of options, sourceUrl or isCropping  *)
(* cancels the pending timer, at most one timer is pending at any time, a  *)
(* burst of changes leads to one call, made with the last settings, and no *)
(* call is started while isCropping is true or no image is selected.  (The *)
(* 500 ms of the timer are not measured: a pending timer may fire at any   *)
(* time before the next change.)                                           *)
(***************************************************************************)
C24_DebouncedProcessing ==
    /\ []OnePendingTimerOfLatestRender
    /\ [][StartsOneRunWithLastSettings /\ ChangeCancelsTimer]_vars

\* a burst: the crop was confirmed, the options changed while its timer
\* was pending, and the one call made has the changed options
C24_Witness ==
    /\ Len(calls) = 1
    /\ calls[1].sourceUrl = CroppedUrl
    /\ calls[1].options.invert
    /\ calls[1].options = appOptions
    /\ timer = NoTimer
    /\ file /\ ~isCropping

(***************************************************************************)
(* Vocabulary of the border properties                                     *)
(***************************************************************************)
\* the image-derived depth of a cell: the hole sentinel if a cutting step
\* cuts it, otherwise the quantized (and inverted) luminance
ImageDepth(c) == IF IsCut(c) THEN Hole ELSE InvertedDepth(options, data[c])

EdgeDistance(c) == MinDist(W, H, CellX(c, W), CellY(c, W))

\* round(border.widthMm / pixelSizeMm)
RoundedBorderPixels ==
    CHOOSE n \in 0 .. (2 * FrameSize) :
        /\ 2 * n * PixelSizeMm(options) <= 2 * options.border.widthMm + PixelSizeMm(options)
        /\ 2 * n * PixelSizeMm(options) > 2 * options.border.widthMm - PixelSizeMm(options)

(***************************************************************************)
(* C25: for the rectangular border types the border override changes only *)
(* cells that are no holes and whose distance to the nearest image edge is *)
(* below borderPixels = round(border.widthMm / pixelSizeMm), and gives     *)
(* them the profile's depth at t = distance / borderPixels, 0 <= t < 1;    *)
(* every cell at distance >= borderPixels keeps its image-derived depth;   *)
(* with border.type = 'none' the height field is the image-derived field.  *)
(***************************************************************************)
C25_BorderOnlyWithinBorderPixels ==
    (PixelsDone /\ options.border.type \in RectangularBorderTypes \cup {"none"}) =>
        LET borderPixels == RoundedBorderPixels
        IN \A c \in Cells(W, H) :
              LET image == ImageDepth(c)
                  dist == EdgeDistance(c)
              IN /\ options.border.type = "none" => depthData[c] = image
                 /\ dist >= borderPixels => depthData[c] = image
                 /\ depthData[c] # image => (image # Hole /\ dist < borderPixels)
                 /\ (options.border.type # "none" /\ image # Hole /\ dist < borderPixels) =>
                       /\ QGe(Q(dist, borderPixels), QInt(0))
                       /\ QLt(Q(dist, borderPixels), QInt(1))
                       /\ depthData[c] = BorderVal(options, Q(dist, borderPixels))

\* a border three cells wide from a width of 2.5 pixels: shaped cells at
\* t = 0, 1/3, 2/3, kept cells inside it, and a hole in the border region
C25_Witness ==
    /\ PixelsDone
    /\ options.border.type \in RectangularBorderTypes
    /\ 2 * options.border.widthMm = 5 * PixelSizeMm(options)
    /\ \A k \in 0 .. 2 : \E c \in Cells(W, H) :
          EdgeDistance(c) = k /\ depthData[c] # ImageDepth(c)
    /\ \E c \in Cells(W, H) :
          EdgeDistance(c) = 3 /\ depthData[c] = ImageDepth(c) /\ depthData[c] # Hole
    /\ \E c \in Cells(W, H) : EdgeDistance(c) < 3 /\ ImageDepth(c) = Hole

(***************************************************************************)
(* Vocabulary of the frame profile                                         *)
(***************************************************************************)
\* the cells the frame border shapes
FrameCells ==
    IF PixelsDone /\ options.border.type = "frame"
    THEN {c \in Cells(W, H) : ImageDepth(c) # Hole /\ EdgeDistance(c) < BorderPixels(options)}
    ELSE {}

FrameT(c) == Q(EdgeDistance(c), BorderPixels(options))

\* the height Z in hundredths of a millimetre the cell's depth stands for:
\* depth = (Z - minHeight) / (maxHeight - minHeight)
FrameZ(c) ==
    QAdd(QMul(depthData[c], QInt(options.maxHeight - options.minHeight)),
         QInt(options.minHeight))

\* the fraction n / d of border.depthMm
OfDepth(n, d) == Q(n * options.border.depthMm, d)

InBand(c, from, to) == QGe(FrameT(c), from) /\ QLt(FrameT(c), to)

Between(z, low, high) == QGe(z, low) /\ QGe(high, z)

\* the lip, the bead and the taper, and the range of Z, as C26 states them
FrameLipBeadTaper ==
    \A c \in FrameCells :
        /\ InBand(c, QInt(0), Q(1, 5)) => FrameZ(c) = OfDepth(1, 1)
        /\ InBand(c, Q(2, 5), Q(4, 5)) => QGe(OfDepth(1, 1), FrameZ(c))
        /\ FrameT(c) = Q(3, 5) => FrameZ(c) = OfDepth(1, 1)
        /\ InBand(c, Q(4, 5), QInt(1)) =>
              FrameZ(c) = QMul(OfDepth(3, 5),
                               QSub(QInt(1), QMul(QSub(FrameT(c), Q(4, 5)), QInt(5))))
        /\ Between(FrameZ(c), QInt(0), OfDepth(1, 1))

(***************************************************************************)
(* C26, as claimed: the frame profile is depthMm on [0, 0.2); on the       *)
(* groove [0.2, 0.4) its lowest value is 0.8 * depthMm; on the bead        *)
(* [0.4, 0.8) its highest value is depthMm; on [0.8, 1.0] it is the linear *)
(* taper 0.6 * depthMm * (1 - (t - 0.8) / 0.2); and 0 <= Z <= depthMm.     *)
(***************************************************************************)
C26_FrameGrooveNotBelowFourFifths ==
    /\ FrameLipBeadTaper
    /\ \A c \in FrameCells :
          InBand(c, Q(1, 5), Q(2, 5)) => QGe(FrameZ(c), OfDepth(4, 5))

(***************************************************************************)
(* C26, amended: as claimed, except that the groove on [0.2, 0.4) starts   *)
(* at 0.8 * depthMm and dips to its lowest value 0.6 * depthMm at t = 0.3. *)
(***************************************************************************)
C26_FrameGrooveDipsToThreeFifths ==
    /\ FrameLipBeadTaper
    /\ \A c \in FrameCells :
          /\ InBand(c, Q(1, 5), Q(2, 5)) => Between(FrameZ(c), OfDepth(3, 5), OfDepth(4, 5))
          /\ FrameT(c) = Q(1, 5) => FrameZ(c) = OfDepth(4, 5)
          /\ FrameT(c) = Q(3, 10) => FrameZ(c) = OfDepth(3, 5)

\* a frame ten cells wide: cells at t = 0, 0.2, 0.3 and 0.5, the one at 0.3
\* at the groove's lowest point
C26_Witness ==
    /\ BorderPixels(options) = 10
    /\ \A k \in {0, 2, 3, 5} : \E c \in FrameCells : EdgeDistance(c) = k
    /\ \E c \in FrameCells : FrameT(c) = Q(3, 10) /\ FrameZ(c) = OfDepth(3, 5)
    /\ \E c \in FrameCells : FrameT(c) = Q(2, 5) /\ FrameZ(c) = OfDepth(3, 5)

(***************************************************************************)
(* C27: isProcessing is true in every state in which a processImage call   *)
(* started by process() has not settled, also while two calls overlap: the *)
(* call that finishes first does not clear the flag for the other.         *)
(***************************************************************************)
C27_BusyWhileAnyCallPending ==
    (\E i \in 1 .. Len(calls) : calls[i].promise = "pending") => isProcessing

(***************************************************************************)
(* C28: after 'New' (handleNewImage) the result stays null until a run for *)
(* a newly selected image resolves; a call that was in flight at the reset *)
(* never stores its result.  Stated for the states between 'New' and the   *)
(* next selection, where no run of a newly selected image exists yet:      *)
(* while no image is selected the result is null.                          *)
(***************************************************************************)
C28_NoResultAfterNewImage ==
    ~file => result = NoResult

(***************************************************************************)
(* Vocabulary of the layer-visibility properties                           *)
(***************************************************************************)
Flags == appOptions.layerVisibility.flags

\* a change of layerCount keeps the flags below min(old, new), old being the
\* number of flags there were, and sets every new index to true
ResizeKeepsFlags ==
    LayerCountChange =>
        /\ Len(Flags') = appOptions'.layerCount
        /\ \A i \in 1 .. Min2(Len(Flags), Len(Flags')) : Flags'[i] = Flags[i]
        /\ \A i \in (Len(Flags) + 1) .. Len(Flags') : Flags'[i]

ToggleFlipsOneFlag ==
    (\E index \in 0 .. (MaxLayerCount - 1) : toggleLayer(index)) =>
        /\ Len(Flags') = Len(Flags)
        /\ Cardinality({i \in 1 .. Len(Flags) : Flags'[i] # Flags[i]}) = 1

(***************************************************************************)
(* C29: while Controls is mounted (an image is selected), after any        *)
(* sequence of layer-count changes, layer toggles, other option changes    *)
(* and 'Defaults' resets, options.layerVisibility has exactly layerCount   *)
(* flags; a change of layerCount keeps the flags of the indices below      *)
(* min(old, new) and sets every new index to true; toggleLayer flips       *)
(* exactly one flag.                                                       *)
(***************************************************************************)
C29_VisibilityLengthIsLayerCount ==
    /\ [](file => (appOptions.layerVisibility.present
                      /\ Len(Flags) = appOptions.layerCount))
    /\ [][ResizeKeepsFlags /\ ToggleFlipsOneFlag]_vars

(***************************************************************************)
(* C30: a cell becomes a hole only through one of the cutting steps (the   *)
(* layer-visibility mask, background removal, the mounting hole, the oval  *)
(* cut): the border height override never turns a cell into a hole, also   *)
(* when the border profile maps to the normalized depth -1.                *)
(***************************************************************************)
C30_HolesOnlyFromCuts ==
    PixelsDone => \A c \in Cells(W, H) : depthData[c] = Hole => IsCut(c)

====
